---------------------------- MODULE Spec2Model ----------------------------
(***************************************************************************)
(* Model of src/app.py: a database liveness checker.                       *)
(*                                                                         *)
(* Text that the code inspects or transforms character by character        *)
(* (environment values, the rendered URL) is a sequence of one-character   *)
(* strings; text the code only passes along (exception messages, hints,    *)
(* type names) is a TLA+ string.  Python's None is the record None and a   *)
(* present value v is Some(v).                                             *)
(***************************************************************************)
EXTENDS Integers, Sequences, FiniteSets, TLC

VARIABLES
    env,         \* the process environment: each DB_* key is None or Some(text)
    sqlalchemy,  \* TRUE iff the guarded import of SQLAlchemy succeeded
    built,       \* what the last build_db_url_from_env() call gave
    world,       \* how the library and the server answered the last probe
    outcome,     \* what the last check_db_liveness() call gave
    response     \* what the last surface adapter call gave its caller

vars == <<env, sqlalchemy, built, world, outcome, response>>

(***************************************************************************)
(* Bounds of the model.                                                    *)
(***************************************************************************)
\* At most this many of the six DB_* variables are set in an environment.
MaxSetKeys == 3
\* At most this many blanks surround a DB_TYPE or DB_PORT value.
MaxPad == 1

(***************************************************************************)
(* Python values.                                                          *)
(***************************************************************************)
None == [some |-> FALSE]
Some(v) == [some |-> TRUE, val |-> v]
NoCall == [called |-> FALSE]

Keys == {"DB_TYPE", "DB_HOST", "DB_PORT", "DB_USER", "DB_PASSWORD", "DB_NAME"}

(***************************************************************************)
(* str methods used by the code.                                           *)
(***************************************************************************)
Whitespace == {" ", "\t"}

Digits == {"0", "1", "2", "3", "4", "5", "6", "7", "8", "9"}

RECURSIVE LStrip(_)
LStrip(s) == IF s # <<>> /\ Head(s) \in Whitespace THEN LStrip(Tail(s)) ELSE s

RECURSIVE RStrip(_)
RStrip(s) ==
    IF s # <<>> /\ s[Len(s)] \in Whitespace
    THEN RStrip(SubSeq(s, 1, Len(s) - 1))
    ELSE s

\* str.strip()
Strip(s) == RStrip(LStrip(s))

UpperToLower ==
    [c \in {"A", "B", "C", "D", "E", "F", "G", "H", "I", "J", "K", "L", "M",
            "N", "O", "P", "Q", "R", "S", "T", "U", "V", "W", "X", "Y", "Z"} |->
        CASE c = "A" -> "a" [] c = "B" -> "b" [] c = "C" -> "c" [] c = "D" -> "d"
          [] c = "E" -> "e" [] c = "F" -> "f" [] c = "G" -> "g" [] c = "H" -> "h"
          [] c = "I" -> "i" [] c = "J" -> "j" [] c = "K" -> "k" [] c = "L" -> "l"
          [] c = "M" -> "m" [] c = "N" -> "n" [] c = "O" -> "o" [] c = "P" -> "p"
          [] c = "Q" -> "q" [] c = "R" -> "r" [] c = "S" -> "s" [] c = "T" -> "t"
          [] c = "U" -> "u" [] c = "V" -> "v" [] c = "W" -> "w" [] c = "X" -> "x"
          [] c = "Y" -> "y" [] c = "Z" -> "z"]

\* str.lower()
Lower(s) ==
    [i \in 1..Len(s) |-> IF s[i] \in DOMAIN UpperToLower THEN UpperToLower[s[i]] ELSE s[i]]

\* needle in haystack, for str operands
Contains(haystack, needle) ==
    \E i \in 0..(Len(haystack) - Len(needle)) :
        SubSeq(haystack, i + 1, i + Len(needle)) = needle

DigitValue ==
    [c \in Digits |->
        CASE c = "0" -> 0 [] c = "1" -> 1 [] c = "2" -> 2 [] c = "3" -> 3
          [] c = "4" -> 4 [] c = "5" -> 5 [] c = "6" -> 6 [] c = "7" -> 7
          [] c = "8" -> 8 [] c = "9" -> 9]

DigitChar == [n \in 0..9 |-> CHOOSE c \in Digits : DigitValue[c] = n]

\* The digits-and-underscores part of an int() literal: single underscores
\* may separate digits.
IsDigitGroup(s) ==
    /\ s # <<>>
    /\ \A i \in 1..Len(s) : s[i] \in Digits \cup {"_"}
    /\ s[1] \in Digits
    /\ s[Len(s)] \in Digits
    /\ \A i \in 1..(Len(s) - 1) : ~(s[i] = "_" /\ s[i + 1] = "_")

RECURSIVE DigitGroupValue(_, _)
DigitGroupValue(s, acc) ==
    IF s = <<>> THEN acc
    ELSE IF Head(s) = "_" THEN DigitGroupValue(Tail(s), acc)
    ELSE DigitGroupValue(Tail(s), 10 * acc + DigitValue[Head(s)])

Unsigned(s) == IF s # <<>> /\ Head(s) \in {"+", "-"} THEN Tail(s) ELSE s

\* int(s) succeeds
IsIntLiteral(s) == IsDigitGroup(Unsigned(Strip(s)))

\* int(s), for s with IsIntLiteral(s)
IntOf(s) ==
    LET t == Strip(s)
        v == DigitGroupValue(Unsigned(t), 0)
    IN  IF Head(t) = "-" THEN 0 - v ELSE v

RECURSIVE NatToStr(_)
NatToStr(n) ==
    IF n < 10 THEN <<DigitChar[n]>>
    ELSE NatToStr(n \div 10) \o <<DigitChar[n % 10]>>

\* str(n) for an int n
IntToStr(n) == IF n < 0 THEN <<"-">> \o NatToStr(0 - n) ELSE NatToStr(n)

(***************************************************************************)
(* String literals of the source.                                          *)
(***************************************************************************)
S_postgresql == <<"p", "o", "s", "t", "g", "r", "e", "s", "q", "l">>
S_postgres == <<"p", "o", "s", "t", "g", "r", "e", "s">>
S_pgsql == <<"p", "g", "s", "q", "l">>
S_psql == <<"p", "s", "q", "l">>
S_mysql == <<"m", "y", "s", "q", "l">>
S_localhost == <<"l", "o", "c", "a", "l", "h", "o", "s", "t">>
S_5432 == <<"5", "4", "3", "2">>
S_3306 == <<"3", "3", "0", "6">>
S_pg_driver ==
    <<"p", "o", "s", "t", "g", "r", "e", "s", "q", "l", "+",
      "p", "s", "y", "c", "o", "p", "g", "2">>
S_my_driver == <<"m", "y", "s", "q", "l", "+", "p", "y", "m", "y", "s", "q", "l">>

(***************************************************************************)
(* Config Resolver.                                                        *)
(***************************************************************************)
\* _get_env(key, default) read against the environment e; default is None
\* or Some(text).
_get_env(e, key, default) ==
    IF e[key].some THEN Some(Strip(e[key].val)) ELSE default

\* The normalisation without the lower() call.
_normalize_db_type_case_sensitive(db_type) ==
    IF ~db_type.some \/ db_type.val = <<>> THEN S_postgresql
    ELSE LET v == Strip(db_type.val)
         IN  IF v \in {S_postgres, S_postgresql, S_pgsql, S_psql} THEN S_postgresql
             ELSE IF v \in {S_mysql} THEN S_mysql
             ELSE S_postgresql

_normalize_db_type(db_type) ==
    IF ~db_type.some \/ db_type.val = <<>> THEN S_postgresql
    ELSE LET v == Lower(Strip(db_type.val))
         IN  IF v \in {S_postgres, S_postgresql, S_pgsql, S_psql} THEN S_postgresql
             ELSE IF v \in {S_mysql} THEN S_mysql
             ELSE S_postgresql


(***************************************************************************)
(* Exceptions and messages.  A message is a sequence of parts: Lit(t) for  *)
(* literal text of the source or of a library, Txt(s) for interpolated     *)
(* character data.                                                         *)
(***************************************************************************)
Lit(t) == [lit |-> t]
Txt(s) == [txt |-> s]

\* An exception instance without a DBAPI cause.
Exc(type, msg) == [type |-> type, msg |-> msg]

\* A sqlalchemy.exc.DBAPIError instance wrapping the driver's exception orig.
DBAPIExc(type, msg, orig) == [type |-> type, msg |-> msg, orig |-> orig]

\* getattr(e, "orig", None)
OrigOf(e) == IF "orig" \in DOMAIN e THEN e.orig ELSE None

\* getattr(getattr(e, "orig", None), "pgcode", None)
PgcodeOf(e) ==
    IF OrigOf(e).some /\ "pgcode" \in DOMAIN OrigOf(e).val
    THEN OrigOf(e).val.pgcode
    ELSE None

(***************************************************************************)
(* Descriptor Builder.                                                     *)
(***************************************************************************)
\* Percent-encoding applied to the username by URL.render_as_string; the
\* characters of UserValues other than these are left as they are.
QuoteChar(c) ==
    CASE c = "@" -> <<"%", "4", "0">>
      [] c = ":" -> <<"%", "3", "A">>
      [] c = "/" -> <<"%", "2", "F">>
      [] OTHER -> <<c>>

RECURSIVE Quote(_)
Quote(s) == IF s = <<>> THEN <<>> ELSE QuoteChar(Head(s)) \o Quote(Tail(s))

S_mask == <<"*", "*", "*">>

\* render_as_string that ignores hide_password.
render_as_string_unmasked(drivername, username, password, host, port, database, hide_password) ==
    LET userinfo ==
            IF username.some
            THEN Quote(username.val)
                 \o (IF password.some THEN <<":">> \o Quote(password.val) ELSE <<>>)
                 \o <<"@">>
            ELSE <<>>
        hostpart == IF Contains(host, <<":">>) THEN <<"[">> \o host \o <<"]">> ELSE host
    IN  drivername \o <<":", "/", "/">> \o userinfo \o hostpart
        \o <<":">> \o IntToStr(port) \o <<"/">> \o database

\* url.render_as_string(hide_password) of URL.create(drivername, username,
\* password, host, port, database): username and password are None or
\* Some(text), host and database are text, port is an int.
render_as_string(drivername, username, password, host, port, database, hide_password) ==
    LET userinfo ==
            IF username.some
            THEN Quote(username.val)
                 \o (IF password.some
                     THEN <<":">> \o (IF hide_password THEN S_mask ELSE Quote(password.val))
                     ELSE <<>>)
                 \o <<"@">>
            ELSE <<>>
        hostpart == IF Contains(host, <<":">>) THEN <<"[">> \o host \o <<"]">> ELSE host
    IN  drivername \o <<":", "/", "/">> \o userinfo \o hostpart
        \o <<":">> \o IntToStr(port) \o <<"/">> \o database

\* build_db_url_from_env() in environment e; imported says whether the
\* guarded import of SQLAlchemy succeeded (URL is not None).  The result is
\* [raised |-> exception] or [safe_url |-> text, details |-> dict].
build_db_url_from_env(e, imported) ==
    LET db_type == _normalize_db_type(_get_env(e, "DB_TYPE", Some(S_postgresql)))
        is_pg == db_type = S_postgresql
        host0 == _get_env(e, "DB_HOST", Some(S_localhost))
        host == IF host0.val = <<>> THEN S_localhost ELSE host0.val
        port0 == _get_env(e, "DB_PORT", Some(IF is_pg THEN S_5432 ELSE S_3306))
        port == IF port0.some THEN port0.val ELSE (IF is_pg THEN S_5432 ELSE S_3306)
        user == _get_env(e, "DB_USER", None)
        password == _get_env(e, "DB_PASSWORD", None)
        dbname == _get_env(e, "DB_NAME", Some(IF is_pg THEN S_postgres ELSE S_mysql)).val
        drivername == IF is_pg THEN S_pg_driver ELSE S_my_driver
    IN  IF ~imported
        THEN [raised |-> Exc("RuntimeError",
                 <<Lit("SQLAlchemy is not installed. Please install dependencies first.")>>)]
        ELSE IF ~IsIntLiteral(port)
        THEN [raised |-> Exc("ValueError",
                 <<Lit("invalid literal for int() with base 10: '"), Txt(port), Lit("'")>>)]
        ELSE LET safe_url == render_as_string(drivername, user, password, host,
                                              IntOf(port), dbname, TRUE)
             IN  [safe_url |-> safe_url,
                  details |-> [db_type |-> db_type,
                               driver |-> drivername,
                               host |-> host,
                               port |-> IntOf(port),
                               database |-> dbname,
                               username |-> user,
                               url |-> safe_url]]

(***************************************************************************)
(* Environments.                                                           *)
(***************************************************************************)
Spaces(n) == [i \in 1..n |-> " "]

Pads == {p \in (0..MaxPad) \X (0..MaxPad) : p[1] + p[2] <= MaxPad}

Pad(p, s) == Spaces(p[1]) \o s \o Spaces(p[2])

\* Values that are set but empty or whitespace-only.
Blanks == {Spaces(n) : n \in 0..MaxPad}

TypeValues ==
    Blanks
    \cup {Pad(p, w) : p \in Pads, w \in {S_mysql, <<"M", "y", "S", "Q", "L">>, <<"P", "S", "Q", "L">>}}
    \cup {S_postgres, S_postgresql, S_pgsql, S_psql, <<"P", "g", "S", "q", "l">>,
          <<"m", "y", " ", "s", "q", "l">>, <<"o", "r", "a", "c", "l", "e">>}

HostValues == Blanks \cup {<<"d", "b">>, <<":", ":", "1">>}

PortValues ==
    Blanks
    \cup {Pad(p, <<"8", "0">>) : p \in Pads}
    \cup {<<"0">>, <<"-", "1">>, <<"x">>, <<"1", "_", "0">>}

UserValues == Blanks \cup {<<"u">>, <<"a", "@", "b">>}

PasswordValues == Blanks \cup {<<"s", "3">>, <<"d", "b">>, <<"u">>}

NameValues == Blanks \cup {<<"a", "p", "p">>}

SetKeys(e) == {k \in Keys : e[k].some}

Opt(S) == {None} \cup {Some(v) : v \in S}

Environments ==
    {e \in [DB_TYPE : Opt(TypeValues), DB_HOST : Opt(HostValues), DB_PORT : Opt(PortValues),
            DB_USER : Opt(UserValues), DB_PASSWORD : Opt(PasswordValues),
            DB_NAME : Opt(NameValues)] :
        Cardinality(SetKeys(e)) <= MaxSetKeys}

(***************************************************************************)
(* The builder applied to every environment.                               *)
(***************************************************************************)
InitBuild ==
    /\ env \in Environments
    /\ sqlalchemy \in BOOLEAN
    /\ built = NoCall
    /\ world = NoCall
    /\ outcome = NoCall
    /\ response = NoCall

Build ==
    /\ built = NoCall
    /\ built' = build_db_url_from_env(env, sqlalchemy)
    /\ UNCHANGED <<env, sqlalchemy, world, outcome, response>>

NextBuild == Build

SpecBuild == InitBuild /\ [][NextBuild]_vars

(***************************************************************************)
(* Exception classes.  When the guarded import at the top of the module    *)
(* fails, the five SQLAlchemy exception names are bound to Exception.      *)
(***************************************************************************)
\* The classes an exception of the given type is an instance of.
Mro(type) ==
    CASE type = "RuntimeError" -> {"RuntimeError", "Exception"}
      [] type = "ValueError" -> {"ValueError", "Exception"}
      [] type = "ModuleNotFoundError" -> {"ModuleNotFoundError", "ImportError", "Exception"}
      [] type = "NoSuchModuleError" ->
            {"NoSuchModuleError", "ArgumentError", "SQLAlchemyError", "Exception"}
      [] type = "ArgumentError" -> {"ArgumentError", "SQLAlchemyError", "Exception"}
      [] type = "OperationalError" ->
            {"OperationalError", "DatabaseError", "DBAPIError", "StatementError",
             "SQLAlchemyError", "Exception"}
      [] type = "ProgrammingError" ->
            {"ProgrammingError", "DatabaseError", "DBAPIError", "StatementError",
             "SQLAlchemyError", "Exception"}
      [] type = "InterfaceError" ->
            {"InterfaceError", "DBAPIError", "StatementError", "SQLAlchemyError", "Exception"}

\* The class a module-level exception name is bound to after the import block.
ClassOf(name, imported) == IF imported THEN name ELSE "Exception"

\* "except <name>" catches e
Catches(name, imported, e) == ClassOf(name, imported) \in Mro(e.type)

(***************************************************************************)
(* The outer world of one probe: how the SQLAlchemy library and the        *)
(* database server answer.                                                 *)
(***************************************************************************)
\* create_engine's answer: the engine, or the client driver of the dialect
\* cannot be imported, or the dialect is not registered, or the URL is
\* rejected.
LibAnswers == {"ok", "no_driver", "no_dialect", "bad_argument"}

S_psycopg2 == <<"p", "s", "y", "c", "o", "p", "g", "2">>
S_pymysql == <<"p", "y", "m", "y", "s", "q", "l">>

\* create_engine(real_url): the dialect imports its DBAPI module, so an
\* absent driver surfaces as the import's ModuleNotFoundError; only an
\* unregistered dialect gives NoSuchModuleError.
create_engine(drivername, lib) ==
    CASE lib = "ok" -> [engine |-> drivername]
      [] lib = "no_driver" ->
            [raised |-> Exc("ModuleNotFoundError",
                <<Lit("No module named '"),
                  Txt(IF drivername = S_pg_driver THEN S_psycopg2 ELSE S_pymysql),
                  Lit("'")>>)]
      [] lib = "no_dialect" ->
            [raised |-> Exc("NoSuchModuleError",
                <<Lit("Can't load plugin: sqlalchemy.dialects:"), Txt(drivername)>>)]
      [] lib = "bad_argument" ->
            [raised |-> Exc("ArgumentError", <<Lit("Invalid argument(s) sent to create_engine()")>>)]

DriverError(text, pgcode) == Some([msg |-> <<Lit(text)>>, pgcode |-> pgcode])

\* What engine.connect() or conn.execute() can raise.
Faults ==
    {DBAPIExc("OperationalError", <<Lit("(psycopg2.OperationalError) connection refused")>>,
              DriverError("connection refused", None)),
     DBAPIExc("OperationalError", <<Lit("(psycopg2.OperationalError) terminating connection")>>,
              DriverError("terminating connection", Some("57P01"))),
     DBAPIExc("ProgrammingError", <<Lit("(psycopg2.ProgrammingError) permission denied")>>,
              DriverError("permission denied", Some("42501"))),
     DBAPIExc("InterfaceError", <<Lit("(psycopg2.InterfaceError) connection already closed")>>,
              DriverError("connection already closed", None)),
     Exc("RuntimeError", <<Lit("'cryptography' package is required for sha256_password or caching_sha2_password auth methods")>>)}

\* The answers one probe can meet: create_engine fails and nothing is
\* connected; or the engine is made and engine.connect() raises and nothing
\* is executed; or the connection opens and conn.execute() raises or returns.
Worlds ==
    {[lib |-> l, conn |-> None, query |-> None] : l \in LibAnswers \ {"ok"}}
    \cup {[lib |-> "ok", conn |-> Some(f), query |-> None] : f \in Faults}
    \cup {[lib |-> "ok", conn |-> None, query |-> q] : q \in Opt(Faults)}

(***************************************************************************)
(* Liveness Prober.                                                        *)
(***************************************************************************)
\* create_engine_from_env(): [raised |-> exception] or
\* [engine |-> ..., details |-> dict].
create_engine_from_env(e, imported, lib) ==
    IF ~imported
    THEN [raised |-> Exc("RuntimeError",
             <<Lit("Failed to import SQLAlchemy. Install requirements and retry.")>>)]
    ELSE LET b == build_db_url_from_env(e, imported)
         IN  IF "raised" \in DOMAIN b THEN b
             ELSE LET eng == create_engine(b.details.driver, lib)
                  IN  IF "raised" \in DOMAIN eng THEN eng
                      ELSE [engine |-> eng.engine, details |-> b.details]

\* The filter written as: if k != "username" or v is not None.
PublicDetails_keep_empty(details) ==
    LET base == [db_type |-> details.db_type, driver |-> details.driver,
                 host |-> details.host, port |-> details.port,
                 database |-> details.database, url |-> details.url]
    IN  IF details.username.some
        THEN [k \in DOMAIN base \cup {"username"} |->
                 IF k = "username" THEN details.username.val ELSE base[k]]
        ELSE base

\* {k: v for k, v in details.items() if k != "username" or v}
PublicDetails(details) ==
    LET base == [db_type |-> details.db_type, driver |-> details.driver,
                 host |-> details.host, port |-> details.port,
                 database |-> details.database, url |-> details.url]
    IN  IF details.username.some /\ details.username.val # <<>>
        THEN [k \in DOMAIN base \cup {"username"} |->
                 IF k = "username" THEN details.username.val ELSE base[k]]
        ELSE base

\* str(e.orig) if getattr(e, "orig", None) else str(e)
OrigMessage(e) == IF OrigOf(e).some THEN OrigOf(e).val.msg ELSE e.msg

Returned(ok, payload, phase) ==
    [returned |-> TRUE, ok |-> ok, payload |-> payload, phase |-> phase]

Escaped(e, phase) == [returned |-> FALSE, raised |-> e, phase |-> phase]

\* The handlers of the first try statement, for e raised by
\* create_engine_from_env().
EngineFailure(e, imported) ==
    IF Catches("NoSuchModuleError", imported, e)
    THEN Returned(FALSE,
            [error |-> "NoSuchModuleError",
             message |-> <<Lit("Database driver not found for URL '")>> \o e.msg
                         \o <<Lit("'. Install the appropriate driver: psycopg2-binary for PostgreSQL, or PyMySQL for MySQL.")>>],
            "engine")
    ELSE IF Catches("ArgumentError", imported, e)
    THEN Returned(FALSE,
            [error |-> "ArgumentError",
             message |-> e.msg,
             hint |-> "Check DB_HOST/DB_PORT/DB_NAME/DB_USER formatting."],
            "engine")
    ELSE IF Catches("Exception", imported, e)
    THEN Returned(FALSE,
            IF ~imported
            THEN [error |-> e.type, message |-> e.msg,
                  hint |-> "Install dependencies from requirements.txt"]
            ELSE [error |-> e.type, message |-> e.msg],
            "engine")
    ELSE Escaped(e, "engine")

\* The second try statement with the SQLAlchemyError handler written first.
ProbeFailure_generic_first(e, imported, details, phase) ==
    IF Catches("SQLAlchemyError", imported, e)
    THEN Returned(FALSE,
            [error |-> e.type, message |-> e.msg, details |-> PublicDetails(details)],
            phase)
    ELSE Escaped(e, phase)

\* The handlers of the second try statement, for e raised by
\* engine.connect() (phase "connect") or conn.execute() (phase "query").
ProbeFailure(e, imported, details, phase) ==
    IF Catches("OperationalError", imported, e)
    THEN Returned(FALSE,
            [error |-> "OperationalError",
             message |-> OrigMessage(e),
             code |-> PgcodeOf(e),
             details |-> PublicDetails(details),
             hint |-> "Verify the database is running, network access, credentials, and that the driver is installed."],
            phase)
    ELSE IF Catches("ProgrammingError", imported, e)
    THEN Returned(FALSE,
            [error |-> "ProgrammingError",
             message |-> OrigMessage(e),
             details |-> PublicDetails(details)],
            phase)
    ELSE IF Catches("SQLAlchemyError", imported, e)
    THEN Returned(FALSE,
            [error |-> e.type, message |-> e.msg, details |-> PublicDetails(details)],
            phase)
    ELSE Escaped(e, phase)

\* check_db_liveness() in world w: w.lib is create_engine's answer, w.conn
\* and w.query are None or Some(exception raised by engine.connect() /
\* conn.execute()).
check_db_liveness(e, imported, w) ==
    LET r == create_engine_from_env(e, imported, w.lib)
    IN  IF "raised" \in DOMAIN r THEN EngineFailure(r.raised, imported)
        ELSE IF w.conn.some THEN ProbeFailure(w.conn.val, imported, r.details, "connect")
        ELSE IF w.query.some THEN ProbeFailure(w.query.val, imported, r.details, "query")
        ELSE Returned(TRUE, [status |-> "ok", details |-> PublicDetails(r.details)], "done")

(***************************************************************************)
(* Surface Adapters.                                                       *)
(***************************************************************************)
\* 200 if ok else 500
StatusCode_500(ok) == IF ok THEN 200 ELSE 500

\* 200 if ok else 503
StatusCode(ok) == IF ok THEN 200 ELSE 503

\* 0 if ok else 2
ExitCode(ok) == IF ok THEN 0 ELSE 2

\* The JSON object jsonify() and json.dumps() make of a payload: the same
\* keys, None written as null.
ToJson(payload) ==
    [k \in DOMAIN payload |->
        IF k = "code" THEN (IF payload[k].some THEN payload[k].val ELSE "null")
        ELSE payload[k]]

Init ==
    /\ env \in [DB_TYPE : Opt({S_mysql}), DB_HOST : Opt({<<"d", "b">>}),
                DB_PORT : Opt({<<"x">>, <<"0">>, <<"8", "0">>}),
                DB_USER : Opt({<<>>, <<"u">>}), DB_PASSWORD : Opt({<<"s", "3">>}),
                DB_NAME : Opt({Spaces(MaxPad)})]
    /\ Cardinality(SetKeys(env)) <= MaxSetKeys
    /\ sqlalchemy \in BOOLEAN
    /\ built = NoCall
    /\ world = NoCall
    /\ outcome = NoCall
    /\ response = NoCall

\* make_response(jsonify(payload), status_code) for the outcome r of
\* check_db_liveness(); an exception leaving the view is answered by Flask
\* with status 500.
HttpResponse(r) ==
    IF r.returned
    THEN [surface |-> "http", status |-> StatusCode(r.ok), body |-> ToJson(r.payload)]
    ELSE [surface |-> "http", status |-> 500]

\* _print_json(payload) and the return value for the outcome r of
\* check_db_liveness(); an exception leaving _run_cli ends the process with
\* a traceback and exit status 1, nothing printed to standard output.
CliResult(r) ==
    IF r.returned
    THEN [surface |-> "cli", exit |-> ExitCode(r.ok), stdout |-> ToJson(r.payload)]
    ELSE [surface |-> "cli", exit |-> 1, traceback |-> r.raised.type]

\* GET /db/health
db_health ==
    \E w \in Worlds :
        /\ world' = w
        /\ outcome' = check_db_liveness(env, sqlalchemy, w)
        /\ response' = HttpResponse(outcome')
        /\ UNCHANGED <<env, sqlalchemy, built>>

\* _run_cli(argv) for argv = ["check"]
_run_cli ==
    \E w \in Worlds :
        /\ world' = w
        /\ outcome' = check_db_liveness(env, sqlalchemy, w)
        /\ response' = CliResult(outcome')
        /\ UNCHANGED <<env, sqlalchemy, built>>

Next == db_health \/ _run_cli

Spec == Init /\ [][Next]_vars

(***************************************************************************)
(* Properties.                                                             *)
(***************************************************************************)
\* v holds the result of a call (it is no longer NoCall).
Called(v) == "called" \notin DOMAIN v

\* The build returned a descriptor.
BuiltOk == Called(built) /\ "details" \in DOMAIN built

\* The key is set to a value with something left after stripping.
NonBlank(e, k) == e[k].some /\ Strip(e[k].val) # <<>>

\* The exception the last probe met in engine.connect() or conn.execute().
WorldFault == IF world.conn.some THEN world.conn.val ELSE world.query.val

\* The last probe got as far as engine.connect() and met an exception there
\* or in conn.execute().
ProbeFailed == Called(outcome) /\ outcome.phase \in {"connect", "query"}

\* C1: whatever fails while the URL is built, the engine is created, the
\* connection is opened or the probe query runs, check_db_liveness returns
\* (ok, payload); no exception leaves it.
C1_NoExceptionEscapes ==
    Called(outcome) => outcome.returned

\* C2: for every outcome (ok, payload) that check_db_liveness returns,
\* db_health answers 200 exactly when ok and 503 otherwise, the CLI check
\* command exits 0 exactly when ok and 2 otherwise, and each carries the
\* payload as its JSON object.
C2_SurfacesFollowOk ==
    (Called(outcome) /\ outcome.returned) =>
        /\ response.surface = "http" =>
              /\ response.status \in {200, 503}
              /\ (response.status = 200) <=> outcome.ok
              /\ response.body = ToJson(outcome.payload)
        /\ response.surface = "cli" =>
              /\ response.exit \in {0, 2}
              /\ (response.exit = 0) <=> outcome.ok
              /\ response.stdout = ToJson(outcome.payload)

\* C2 witness: a failed probe answered by both conventions' failure value,
\* here the HTTP one.
C2_Witness ==
    /\ Called(outcome) /\ outcome.returned /\ ~outcome.ok
    /\ response.surface = "http" /\ response.status = 503
    /\ "details" \in DOMAIN response.body

\* C3: with SQLAlchemy importable and the client driver of the selected kind
\* absent, check_db_liveness returns ok = false in the NoSuchModuleError
\* (DriverMissing) branch.
C3_MissingDriverIsDriverMissing ==
    (Called(outcome) /\ sqlalchemy /\ world.lib = "no_driver"
        /\ "details" \in DOMAIN build_db_url_from_env(env, sqlalchemy)) =>
        /\ outcome.returned
        /\ ~outcome.ok
        /\ outcome.payload.error = "NoSuchModuleError"

\* C4 as stated: a failure while opening the connection is reported as
\* OperationalError with the hint, and a failure of the probe query on an
\* open connection is reported as ProgrammingError, whatever was raised.
C4_CategoryFollowsPhase ==
    (ProbeFailed /\ outcome.returned) =>
        /\ outcome.phase = "connect" =>
              outcome.payload.error = "OperationalError" /\ "hint" \in DOMAIN outcome.payload
        /\ outcome.phase = "query" => outcome.payload.error = "ProgrammingError"

\* C4 amended: the category follows the class of the exception, in either
\* phase: an OperationalError is reported as OperationalError with the hint
\* and the driver's code, a ProgrammingError as ProgrammingError without a
\* hint, every other SQLAlchemyError under its own type name.
C4_CategoryFollowsExceptionClass ==
    (ProbeFailed /\ "SQLAlchemyError" \in Mro(WorldFault.type)) =>
        /\ outcome.returned
        /\ ~outcome.ok
        /\ outcome.payload.error = WorldFault.type
        /\ ("hint" \in DOMAIN outcome.payload) <=> (WorldFault.type = "OperationalError")
        /\ ("code" \in DOMAIN outcome.payload) <=> (WorldFault.type = "OperationalError")
        /\ WorldFault.type \in {"OperationalError", "ProgrammingError"} =>
              outcome.payload.message = WorldFault.orig.val.msg

\* C4 witness: the connection opened, the probe query raised an
\* OperationalError, and the payload is the OperationalError one.
C4_Witness ==
    /\ ProbeFailed
    /\ outcome.phase = "query"
    /\ WorldFault.type = "OperationalError"
    /\ outcome.returned
    /\ outcome.payload.error = "OperationalError"
    /\ "hint" \in DOMAIN outcome.payload

\* The texts of the display form: the safe URL and every value of details.
DisplayTexts(b) ==
    {b.safe_url, b.details.db_type, b.details.driver, b.details.host,
     IntToStr(b.details.port), b.details.database, b.details.url}
    \cup (IF b.details.username.some THEN {b.details.username.val} ELSE {})

Unblank(e) == [k \in Keys |-> IF NonBlank(e, k) THEN e[k] ELSE None]

\* C6: a key set to an empty or whitespace-only value resolves exactly as
\* if the key were unset.
C6_BlankResolvesAsUnset ==
    Called(built) => built = build_db_url_from_env(Unblank(env), sqlalchemy)

\* C7: every descriptor that build_db_url_from_env returns has a port that
\* is an integer greater than or equal to 1.
C7_PortIsPositive ==
    BuiltOk => built.details.port >= 1

\* The descriptor that the payloads summarise.
BuiltDetails == build_db_url_from_env(env, sqlalchemy).details

C9_DefaultsFollowKind ==
    (BuiltOk /\ SetKeys(env) \subseteq {"DB_TYPE", "DB_PASSWORD"}) =>
        LET d == built.details
            is_mysql == env["DB_TYPE"].some
                        /\ Lower(Strip(env["DB_TYPE"].val)) = <<"m", "y", "s", "q", "l">>
        IN  /\ d.host = <<"l", "o", "c", "a", "l", "h", "o", "s", "t">>
            /\ d.username = None
            /\ is_mysql =>
                  /\ d.db_type = <<"m", "y", "s", "q", "l">>
                  /\ d.driver = <<"m", "y", "s", "q", "l", "+", "p", "y", "m", "y", "s", "q", "l">>
                  /\ d.port = 3306
                  /\ d.database = <<"m", "y", "s", "q", "l">>
            /\ ~is_mysql =>
                  /\ d.db_type = <<"p", "o", "s", "t", "g", "r", "e", "s", "q", "l">>
                  /\ d.driver = <<"p", "o", "s", "t", "g", "r", "e", "s", "q", "l", "+",
                                  "p", "s", "y", "c", "o", "p", "g", "2">>
                  /\ d.port = 5432
                  /\ d.database = <<"p", "o", "s", "t", "g", "r", "e", "s">>

\* C9 witness: only DB_TYPE is set, to a padded mixed-case spelling of
\* mysql, and the descriptor has the mysql defaults.
C9_Witness ==
    /\ BuiltOk
    /\ SetKeys(env) = {"DB_TYPE"}
    /\ env["DB_TYPE"].val \notin {S_mysql}
    /\ Strip(env["DB_TYPE"].val) # env["DB_TYPE"].val
    /\ Lower(env["DB_TYPE"].val) # env["DB_TYPE"].val
    /\ built.details.port = 3306

\* C10: when the import of SQLAlchemy failed, check_db_liveness returns
\* ok = false with error equal to the type name of the exception raised (the
\* RuntimeError of create_engine_from_env) and the hint to install the
\* dependencies.
C10_ImportFailureIsUnknownWithHint ==
    (Called(outcome) /\ ~sqlalchemy) =>
        /\ outcome.returned
        /\ ~outcome.ok
        /\ outcome.payload.error = "RuntimeError"
        /\ "hint" \in DOMAIN outcome.payload
        /\ outcome.payload.hint = "Install dependencies from requirements.txt"

=============================================================================
